---- MODULE Spec2Model ----
(***************************************************************************)
(* Model of the per-client sliding-window rate limiter                     *)
(* (internal/handlers/middleware/rate_limit.go, RateLimiter and            *)
(* RateLimiter.RateLimitMiddleware) together with the part of gin's        *)
(* handler chain (c.Next, c.Abort) and of the response helpers that the    *)
(* middleware drives; and of the user routes of UserRouter.Register:       *)
(* LoggingMiddleware, AuthMiddleware, ContentTypeMiddleware and the        *)
(* handlers of UserHandler.                                                *)
(*                                                                         *)
(* Every HTTP request is one goroutine.  Its position in the code of the   *)
(* handler it is executing is pc[r]; the handlers that are suspended in    *)
(* c.Next() below it are stack[r].  The limiter's shared state is the map  *)
(* requests and the mutex mu.                                              *)
(***************************************************************************)
EXTENDS Integers, Sequences, FiniteSets, TLC

\* ------------------------------------------------------------------ bounds
NumRequests == 3        \* request goroutines of one run
MaxTime == 2            \* the clock runs over 0..MaxTime
MaxQuota == 2           \* maxRequests is drawn from 1..MaxQuota
MaxWindow == 2          \* duration is drawn from 1..MaxWindow
MaxSteps == 3           \* pages turned after a Pagination is built

Clients == {"10.0.0.5", "10.0.0.6"}

VARIABLES
    requests,        \* rl.requests: map[string][]time.Time
    mu,              \* rl.mu: 0 when unlocked, else the request holding it
    clock,           \* what time.Now() returns
    routes,          \* the handler chains registered on the router
    pool,            \* number of request goroutines of this run
    pc,              \* per request: position in the executing handler
    ip,              \* per request: c.ClientIP()
    handlers,        \* per request: c.handlers, the matched chain
    index,           \* per request: c.index (1-based)
    aborted,         \* per request: c.IsAborted()
    stack,           \* per request: indices of the handlers being executed
    now,             \* per request: local now of the executing middleware
    recentRequests,  \* per request: local recentRequests
    written,         \* per request: statuses written with c.JSON, in order
    handlerRuns,     \* per request: times the route's handler was invoked
    decisions,       \* per request: admission decisions taken, in order
    request,         \* per request: c.Request (method, path, headers, :id)
    trace,           \* per request: the functions run and what they
                     \* passed to c.JSON, to the service and to log.Printf
    pagination       \* the utils.Pagination last built, with its arguments

vars == <<requests, mu, clock, routes, pool, pc, ip, handlers, index, aborted,
          stack, now, recentRequests, written, handlerRuns, decisions,
          request, trace, pagination>>

Requests == 1..pool

\* ------------------------------------------------- response helper statuses
\* internal/handlers/response/response.go: the status each helper writes.
StatusOf ==
    [SuccessOK |-> 200, SuccessOKWithMessage |-> 200, SuccessCreated |-> 201,
     SuccessCreatedWithMessage |-> 201, SuccessNoContent |-> 204,
     SuccessPaginated |-> 200, ErrorBadRequest |-> 400,
     ErrorUnauthorized |-> 401, ErrorForbidden |-> 403, ErrorNotFound |-> 404,
     ErrorConflict |-> 409, ErrorInternalServer |-> 500,
     ErrorUnprocessableEntity |-> 422, ErrorTooManyRequests |-> 429]

Helpers == DOMAIN StatusOf

\* response.ErrorTooManyRequests(c, ...): c.JSON(http.StatusTooManyRequests, ..)
ErrorTooManyRequests(w) == Append(w, StatusOf.ErrorTooManyRequests)

\* UserHandler.GetAllUsers: ErrorInternalServer on a service error, else
\* SuccessOK.
GetAllUsersHelpers == {"ErrorInternalServer", "SuccessOK"}

\* --------------------------------------------------------- handler chains
\* rl.RateLimitMiddleware(maxRequests, duration): the closure and what it
\* captures.
RateLimitMiddleware(maxRequests, duration) ==
    [kind |-> "ratelimit", maxRequests |-> maxRequests, duration |-> duration]

\* The route's final handler (userGroup.GET("", r.handler.GetAllUsers)).
RouteHandler == [kind |-> "handler", maxRequests |-> 0, duration |-> 0]

\* middleware.LoggingMiddleware(), AuthMiddleware(), ContentTypeMiddleware():
\* closures that capture nothing.
LoggingMiddleware == [kind |-> "logging", maxRequests |-> 0, duration |-> 0]
AuthMiddleware == [kind |-> "auth", maxRequests |-> 0, duration |-> 0]
ContentTypeMiddleware ==
    [kind |-> "contenttype", maxRequests |-> 0, duration |-> 0]

\* The other methods of UserHandler, as final handlers of a route.
UserHandlers == {"GetUser", "CreateUser", "UpdateUser", "DeleteUser"}
Handler(name) == [kind |-> name, maxRequests |-> 0, duration |-> 0]

\* h is the final handler of a route, not a middleware.
IsRouteHandler(h) == h.kind \in {"handler"} \cup UserHandlers

\* The handler a request is executing: the top of its stack.
Top(r) == stack[r][Len(stack[r])]
Executing(r) == handlers[r][Top(r)]

\* ------------------------------------------------------ the limiter's code
\* rl.requests[ip], the zero value (nil slice) for a missing key.
Lookup(m, k) == IF k \in DOMAIN m THEN m[k] ELSE <<>>

\* Mutant: the entry of ip is reset to the empty list even when it exists.
GetOrCreateResets(m, k) ==
    [c \in DOMAIN m \cup {k} |-> IF c = k THEN <<>> ELSE m[c]]

\* if _, exists := rl.requests[ip]; !exists { rl.requests[ip] = []time.Time{} }
GetOrCreate(m, k) ==
    [c \in DOMAIN m \cup {k} |-> IF c \in DOMAIN m THEN m[c] ELSE <<>>]

\* Mutant: the assignment to the map is missing.
StoreNothing(m, k, v) == m

\* Mutant: the list is stored under every key of the map.
StoreForAll(m, k, v) == [c \in DOMAIN m \cup {k} |-> v]

\* Mutant: the map is replaced by one that holds the stored key only.
StoreAlone(m, k, v) == [c \in {k} |-> v]

\* rl.requests[ip] = recentRequests
Store(m, k, v) == [c \in DOMAIN m \cup {k} |-> IF c = k THEN v ELSE m[c]]

\* Mutant: a timestamp exactly duration old is still kept.
InWindowClosed(t, reqTime, duration) == t - reqTime <= duration

\* if now.Sub(reqTime) < duration: reqTime is kept
InWindow(t, reqTime, duration) == t - reqTime < duration

\* Mutant: a fixed bucket, the whole log is dropped once its first timestamp
\* has left the window and kept whole until then.
RecentBucketReset(log, t, duration) ==
    IF log # <<>> /\ t - log[1] < duration THEN log ELSE <<>>

\* Mutant: nothing is pruned, every stored timestamp is counted.
RecentKeepsAll(log, t, duration) == log

\* for _, reqTime := range rl.requests[ip] { if ... { append } }
Recent(log, t, duration) ==
    SelectSeq(log, LAMBDA reqTime : InWindow(t, reqTime, duration))

\* Mutant: the limit counts as exceeded only above maxRequests.
LimitExceededOffByOne(recent, maxRequests) == Len(recent) > maxRequests

\* if len(recentRequests) >= maxRequests
LimitExceeded(recent, maxRequests) == Len(recent) >= maxRequests

Range(s) == {s[i] : i \in DOMAIN s}

\* ---------------------------------------------------------- gin's chain
\* Where a handler starts: the limiter's middleware at rl.mu.Lock()
\* (ip := c.ClientIP() reads the request only), any other function at the
\* top of its body, a position named after the function.
EntryPc(h) == IF h.kind = "ratelimit" THEN "lock" ELSE h.kind

\* Where a middleware goes on when its c.Next() returns: the limiter's has
\* its deferred Unlock left, LoggingMiddleware its log line, the others
\* nothing but their return.
ResumePc(h) ==
    CASE h.kind = "ratelimit" -> "unlock"
      [] h.kind = "logging" -> "log"
      [] OTHER -> "return"

\* handlers[i](c) is called on top of the frames stk.
Invoke(r, i, stk) ==
    /\ index' = [index EXCEPT ![r] = i]
    /\ stack' = [stack EXCEPT ![r] = Append(stk, i)]
    /\ pc' = [pc EXCEPT ![r] = EntryPc(handlers[r][i])]
    /\ handlerRuns' = [handlerRuns EXCEPT ![r] =
            IF IsRouteHandler(handlers[r][i]) THEN @ + 1 ELSE @]

\* The executing handler returns, leaving w written, into the loop of the
\* c.Next() that called it: c.index++, and while c.index < len(c.handlers) the
\* next handler is called; otherwise c.Next() returns to the middleware that
\* called it, which goes on after its c.Next(), or to the engine.  Back
\* in the engine the response is sent and the gin.Context (c.index, what was
\* written, the abort mark) is gone.
Return(r, w) ==
    LET popped == SubSeq(stack[r], 1, Len(stack[r]) - 1)
        i == index[r] + 1
    IN  IF i <= Len(handlers[r]) /\ ~aborted[r]
        THEN /\ Invoke(r, i, popped)
             /\ written' = [written EXCEPT ![r] = w]
             /\ UNCHANGED aborted
        ELSE IF popped # <<>>
        THEN /\ index' = [index EXCEPT ![r] = i]
             /\ stack' = [stack EXCEPT ![r] = popped]
             /\ pc' = [pc EXCEPT ![r] =
                    ResumePc(handlers[r][popped[Len(popped)]])]
             /\ written' = [written EXCEPT ![r] = w]
             /\ UNCHANGED <<aborted, handlerRuns>>
        ELSE /\ index' = [index EXCEPT ![r] = 0]
             /\ stack' = [stack EXCEPT ![r] = <<>>]
             /\ pc' = [pc EXCEPT ![r] = "done"]
             /\ written' = [written EXCEPT ![r] = <<>>]
             /\ aborted' = [aborted EXCEPT ![r] = FALSE]
             /\ handlerRuns' = [handlerRuns EXCEPT ![r] = 0]

\* engine.ServeHTTP: a request of client c arrives on the route chain; the
\* engine runs the chain from its first handler.  Request ids are given in
\* arrival order.
Arrive(r) ==
    /\ pc[r] = "idle"
    /\ \A q \in Requests : q < r => pc[q] # "idle"
    /\ \E c \in Clients, chain \in routes :
        /\ ip' = [ip EXCEPT ![r] = c]
        /\ handlers' = [handlers EXCEPT ![r] = chain]
        /\ index' = [index EXCEPT ![r] = 1]
        /\ stack' = [stack EXCEPT ![r] = <<1>>]
        /\ pc' = [pc EXCEPT ![r] = EntryPc(chain[1])]
        /\ handlerRuns' = [handlerRuns EXCEPT ![r] =
                IF chain[1].kind = "handler" THEN 1 ELSE 0]
    /\ UNCHANGED <<requests, mu, clock, routes, pool, aborted, now,
                   recentRequests, written, decisions>>
    /\ UNCHANGED <<request, trace, pagination>>

\* -------------------------------------------- RateLimiter.RateLimitMiddleware
\* Mutant: no mutual exclusion, Lock never blocks.
MutexAlwaysFree(r) == TRUE

\* rl.mu.Lock(): blocks while another holder has the mutex.
MutexFree(r) == mu = 0

Lock(r) ==
    /\ pc[r] = "lock"
    /\ MutexFree(r)
    /\ mu' = r
    /\ pc' = [pc EXCEPT ![r] = "now"]
    /\ UNCHANGED <<requests, clock, routes, pool, ip, handlers, index, aborted,
                   stack, now, recentRequests, written, handlerRuns, decisions>>
    /\ UNCHANGED <<request, trace, pagination>>

\* now := time.Now(); the entry of ip is created when missing; the
\* timestamps still inside the window are collected in recentRequests.
Prune(r) ==
    /\ pc[r] = "now"
    /\ now' = [now EXCEPT ![r] = clock]
    /\ requests' = GetOrCreate(requests, ip[r])
    /\ recentRequests' = [recentRequests EXCEPT ![r] =
            Recent(Lookup(requests, ip[r]), clock, Executing(r).duration)]
    /\ pc' = [pc EXCEPT ![r] = "check"]
    /\ UNCHANGED <<mu, clock, routes, pool, ip, handlers, index, aborted, stack,
                   written, handlerRuns, decisions>>
    /\ UNCHANGED <<request, trace, pagination>>

\* Mutant: the rejected attempt is counted too, its timestamp is stored.
RejectCountsAttempt(r) ==
    /\ pc[r] = "check"
    /\ LimitExceeded(recentRequests[r], Executing(r).maxRequests)
    /\ written' = [written EXCEPT ![r] = ErrorTooManyRequests(@)]
    /\ aborted' = [aborted EXCEPT ![r] = TRUE]
    /\ decisions' = [decisions EXCEPT ![r] =
            Append(@, [admit |-> FALSE, at |-> now[r], by |-> Top(r)])]
    /\ requests' = Store(requests, ip[r], Append(recentRequests[r], now[r]))
    /\ pc' = [pc EXCEPT ![r] = "unlock"]
    /\ UNCHANGED <<mu, clock, routes, pool, ip, handlers, index, stack,
                   now, recentRequests, handlerRuns>>
    /\ UNCHANGED <<request, trace, pagination>>

\* Mutant: c.Abort() is missing after the 429.
RejectWithoutAbort(r) ==
    /\ pc[r] = "check"
    /\ LimitExceeded(recentRequests[r], Executing(r).maxRequests)
    /\ written' = [written EXCEPT ![r] = ErrorTooManyRequests(@)]
    /\ decisions' = [decisions EXCEPT ![r] =
            Append(@, [admit |-> FALSE, at |-> now[r], by |-> Top(r)])]
    /\ pc' = [pc EXCEPT ![r] = "unlock"]
    /\ UNCHANGED <<requests, mu, clock, routes, pool, ip, handlers, index, stack,
                   now, recentRequests, handlerRuns, aborted>>
    /\ UNCHANGED <<request, trace, pagination>>

\* The limit is exceeded: 429 is written, the chain is aborted, the
\* middleware returns (its deferred Unlock is what is left).
Reject(r) ==
    /\ pc[r] = "check"
    /\ LimitExceeded(recentRequests[r], Executing(r).maxRequests)
    /\ written' = [written EXCEPT ![r] = ErrorTooManyRequests(@)]
    /\ aborted' = [aborted EXCEPT ![r] = TRUE]
    /\ decisions' = [decisions EXCEPT ![r] =
            Append(@, [admit |-> FALSE, at |-> now[r], by |-> Top(r)])]
    /\ pc' = [pc EXCEPT ![r] = "unlock"]
    /\ UNCHANGED <<requests, mu, clock, routes, pool, ip, handlers, index, stack,
                   now, recentRequests, handlerRuns>>
    /\ UNCHANGED <<request, trace, pagination>>

\* The limit is not exceeded: now is appended and the list is stored.
Admit(r) ==
    /\ pc[r] = "check"
    /\ ~LimitExceeded(recentRequests[r], Executing(r).maxRequests)
    /\ recentRequests' = [recentRequests EXCEPT ![r] = Append(@, now[r])]
    /\ requests' = Store(requests, ip[r], recentRequests'[r])
    /\ decisions' = [decisions EXCEPT ![r] =
            Append(@, [admit |-> TRUE, at |-> now[r], by |-> Top(r)])]
    /\ pc' = [pc EXCEPT ![r] = "next"]
    /\ UNCHANGED <<mu, clock, routes, pool, ip, handlers, index, aborted, stack,
                   now, written, handlerRuns>>
    /\ UNCHANGED <<request, trace, pagination>>

\* c.Next() of the middleware: c.index++ and the next handler of the chain
\* is called, if there is one.
CallNext(r) ==
    /\ pc[r] = "next"
    /\ LET i == index[r] + 1
       IN  IF i <= Len(handlers[r]) /\ ~aborted[r]
           THEN Invoke(r, i, stack[r])
           ELSE /\ index' = [index EXCEPT ![r] = i]
                /\ pc' = [pc EXCEPT ![r] = "unlock"]
                /\ UNCHANGED <<stack, handlerRuns>>
    /\ UNCHANGED <<requests, mu, clock, routes, pool, ip, handlers, aborted,
                   now, recentRequests, written, decisions>>
    /\ UNCHANGED <<request, trace, pagination>>

\* What the deferred rl.mu.Unlock() leaves in the mutex.
Unlocked(r) == 0

\* The middleware function returns: its deferred rl.mu.Unlock() runs, its
\* locals die.
Unlock(r) ==
    /\ pc[r] = "unlock"
    /\ mu' = Unlocked(r)
    /\ now' = [now EXCEPT ![r] = 0]
    /\ recentRequests' = [recentRequests EXCEPT ![r] = <<>>]
    /\ Return(r, written[r])
    /\ UNCHANGED <<requests, clock, routes, pool, ip, handlers, decisions>>
    /\ UNCHANGED <<request, trace, pagination>>

\* UserHandler.GetAllUsers finishes (the service call it waits for is over)
\* and writes its response.
HandlerReturn(r) ==
    /\ pc[r] = "handler"
    /\ \E h \in GetAllUsersHelpers : Return(r, Append(written[r], StatusOf[h]))
    /\ UNCHANGED <<requests, mu, clock, routes, pool, ip, handlers, now,
                   recentRequests, decisions>>
    /\ UNCHANGED <<request, trace, pagination>>

\* Mutant: the clock is set to any other time, back as well as on.
TickAnywhere ==
    /\ clock' \in (0..MaxTime) \ {clock}
    /\ UNCHANGED <<requests, mu, routes, pool, pc, ip, handlers, index, aborted,
                   stack, now, recentRequests, written, handlerRuns, decisions>>
    /\ UNCHANGED <<request, trace, pagination>>

\* Time passes.
Tick ==
    /\ clock < MaxTime
    /\ clock' = clock + 1
    /\ UNCHANGED <<requests, mu, routes, pool, pc, ip, handlers, index, aborted,
                   stack, now, recentRequests, written, handlerRuns, decisions>>
    /\ UNCHANGED <<request, trace, pagination>>

\* ------------------------------------------------------ 64-bit arithmetic
\* Go's int (on a 64-bit build) and int64 hold 64 bits, more than TLC's
\* integers: a value is its two's-complement bit pattern, four limbs of 16
\* bits with the least significant first.  The arithmetic wraps as Go's does.
Limb == 2^16
Limbs == 1..4

\* The pattern of a small integer.
Word(n) == <<n % Limb, (n \div Limb) % Limb, 0, 0>>

\* a + n, for 0 <= n < Limb.
AddSmall(a, n) ==
    LET s1 == a[1] + n
        s2 == a[2] + (s1 \div Limb)
        s3 == a[3] + (s2 \div Limb)
        s4 == a[4] + (s3 \div Limb)
    IN  <<s1 % Limb, s2 % Limb, s3 % Limb, s4 % Limb>>

\* a + b
Add(a, b) ==
    LET s1 == a[1] + b[1]
        s2 == a[2] + b[2] + (s1 \div Limb)
        s3 == a[3] + b[3] + (s2 \div Limb)
        s4 == a[4] + b[4] + (s3 \div Limb)
    IN  <<s1 % Limb, s2 % Limb, s3 % Limb, s4 % Limb>>

\* -a
Negate(a) == AddSmall([i \in Limbs |-> Limb - 1 - a[i]], 1)

\* a - b
Sub(a, b) == Add(a, Negate(b))

\* The pattern of an integer of small magnitude.
Int64(n) == IF n >= 0 THEN Word(n) ELSE Negate(Word(-n))

\* a * m, for 0 <= m < 2^8.
MulSmall(a, m) ==
    LET p1 == a[1] * m
        p2 == a[2] * m + (p1 \div Limb)
        p3 == a[3] * m + (p2 \div Limb)
        p4 == a[4] * m + (p3 \div Limb)
    IN  <<p1 % Limb, p2 % Limb, p3 % Limb, p4 % Limb>>

\* a * 2^(16 * n)
ShiftLimbs(a, n) == [i \in Limbs |-> IF i > n THEN a[i - n] ELSE 0]

\* a * l, for a limb l: its two bytes one after the other.
MulLimb(a, l) ==
    Add(MulSmall(MulSmall(a, l \div 2^8), 2^8), MulSmall(a, l % 2^8))

\* a * b
Mul(a, b) ==
    Add(Add(MulLimb(a, b[1]), ShiftLimbs(MulLimb(a, b[2]), 1)),
        Add(ShiftLimbs(MulLimb(a, b[3]), 2), ShiftLimbs(MulLimb(a, b[4]), 3)))

\* The sign bit.
IsNegative(a) == a[4] >= Limb \div 2

\* a < b for the patterns read as unsigned numbers.
Below(a, b) ==
    \E i \in Limbs : a[i] < b[i] /\ \A j \in Limbs : j > i => a[j] = b[j]

\* a < b
Less(a, b) ==
    IF IsNegative(a) = IsNegative(b) THEN Below(a, b) ELSE IsNegative(a)

\* |a|, as an unsigned number: 2^63 for the least int64.
Magnitude(a) == IF IsNegative(a) THEN Negate(a) ELSE a

\* math.MaxInt64 and math.MinInt64
MaxInt == <<Limb - 1, Limb - 1, Limb - 1, Limb \div 2 - 1>>
MinInt == <<0, 0, 0, Limb \div 2>>

\* Number of bits of a limb, and of an unsigned number: 0 for zero.
Bits(n) == CHOOSE k \in 0..16 : n < 2^k /\ (k > 0 => n >= 2^(k - 1))
BitLen(a) ==
    IF a[4] > 0 THEN 48 + Bits(a[4])
    ELSE IF a[3] > 0 THEN 32 + Bits(a[3])
    ELSE IF a[2] > 0 THEN 16 + Bits(a[2])
    ELSE Bits(a[1])

\* Quotient and remainder of the unsigned a by d, for 0 < d < 2^8.
DivSmall(a, d) ==
    LET t4 == a[4]
        t3 == (t4 % d) * Limb + a[3]
        t2 == (t3 % d) * Limb + a[2]
        t1 == (t2 % d) * Limb + a[1]
    IN  [q |-> <<t1 \div d, t2 \div d, t3 \div d, t4 \div d>>, r |-> t1 % d]

\* ------------------------------------------------------------- float64
\* A float64 has a significand of 53 bits; a result that needs more is
\* rounded to the nearest float64, to the even one of two equally near.
Significand == 53

\* The float64 nearest to a + r/d, for an unsigned a of at least 53 bits
\* and 0 <= r < d: the bits of a below the significand, and the fraction,
\* are rounded away.  The result is a whole number.
Round(a, r, d) ==
    LET k == BitLen(a) - Significand
        unit == 2^k
        low == a[1] % unit
        odd == (a[1] \div unit) % 2 = 1
        up == IF k = 0
              THEN 2 * r > d \/ (2 * r = d /\ odd)
              ELSE \/ 2 * low > unit
                   \/ 2 * low = unit /\ (r > 0 \/ odd)
        floor == [a EXCEPT ![1] = @ - low]
    IN  IF up THEN AddSmall(floor, unit) ELSE floor

\* float64(a) of an int64: sign and magnitude, both kept by the rounding.
Float64(a) ==
    LET m == Magnitude(a)
    IN  [neg |-> IsNegative(a),
         mag |-> IF BitLen(m) <= Significand THEN m ELSE Round(m, 0, 1)]

\* math.Ceil(x / float64(d)) for a whole float64 x and 0 < d < 2^8.  The
\* quotient q + r/d is rounded to a float64 first: with 53 or more bits in
\* q to a whole number; with n < 53 bits in q to 53 - n fraction bits, and
\* then a fraction of at most half a unit of the last place is lost (of
\* the magnitude, so a negative quotient loses it the other way round).
Ceil(x, d) ==
    LET qr == DivSmall(x.mag, d)
        q == qr.q
        r == qr.r
        n == BitLen(q)
        \* r/d, or 1 - r/d, is at most half of 2^-(53 - n)
        lost(part) == Significand - n + 2 <= Bits(d \div part)
    IN  [neg |-> x.neg,
         mag |-> IF n >= Significand THEN Round(q, r, d)
                 ELSE IF r = 0 THEN q
                 ELSE IF ~x.neg
                      THEN IF n > 0 /\ lost(r) THEN q ELSE AddSmall(q, 1)
                      ELSE IF n > 0 /\ lost(d - r) THEN AddSmall(q, 1) ELSE q]

\* int(x) of a whole float64: the value when an int holds it; what the
\* processor gives when it does not (the language leaves it open): the
\* least int on amd64, the greatest on arm64.
IntOf(x) ==
    IF x.neg THEN {Negate(x.mag)}
    ELSE IF IsNegative(x.mag) THEN {MinInt, MaxInt}
    ELSE {x.mag}

\* ------------------------------------------------------------ pagination
\* pkg/utils: type Pagination struct and its constructor.
NewPagination(page, pageSize, total) ==
    LET pg == IF Less(page, Int64(1)) THEN Int64(1) ELSE page
        sz == IF Less(pageSize, Int64(1)) THEN Int64(10) ELSE pageSize
        size == IF Less(Int64(100), sz) THEN Int64(100) ELSE sz
    IN  {[Page |-> pg, PageSize |-> size, Total |-> total, TotalPage |-> tp] :
            tp \in IntOf(Ceil(Float64(total), size[1]))}

GetOffset(p) == Mul(Sub(p.Page, Int64(1)), p.PageSize)

GetLimit(p) == p.PageSize

IsValid(p) ==
    /\ ~Less(p.Page, Int64(1))
    /\ ~Less(p.PageSize, Int64(1))
    /\ ~Less(Int64(100), p.PageSize)

HasPreviousPage(p) == Less(Int64(1), p.Page)

\* A next page is offered on the last page too.
HasNextPageOnLast(p) == ~Less(p.TotalPage, p.Page)

HasNextPage(p) == Less(p.Page, p.TotalPage)

GetPreviousPage(p) ==
    IF ~HasPreviousPage(p) THEN p.Page ELSE Sub(p.Page, Int64(1))

GetNextPage(p) ==
    IF ~HasNextPage(p) THEN p.Page ELSE Add(p.Page, Int64(1))

\* No Pagination has been built.
NoPagination == [op |-> "", page |-> Int64(0), pageSize |-> Int64(0),
                 total |-> Int64(0), p |-> <<>>, steps |-> 0]

\* ------------------------------------------------------------ specification
\* NewRateLimiter(): an empty map, an unlocked mutex.  No request has arrived.
InitLimiter ==
    /\ requests = <<>>
    /\ mu = 0
    /\ clock = 0

\* No request has been received.
NoRequest ==
    [method |-> "", path |-> "", authorization |-> "", contentType |-> "",
     id |-> <<>>]

InitRequests(n) ==
    /\ pool = n
    /\ pc = [r \in 1..n |-> "idle"]
    /\ ip = [r \in 1..n |-> ""]
    /\ handlers = [r \in 1..n |-> <<>>]
    /\ index = [r \in 1..n |-> 0]
    /\ aborted = [r \in 1..n |-> FALSE]
    /\ stack = [r \in 1..n |-> <<>>]
    /\ now = [r \in 1..n |-> 0]
    /\ recentRequests = [r \in 1..n |-> <<>>]
    /\ written = [r \in 1..n |-> <<>>]
    /\ handlerRuns = [r \in 1..n |-> 0]
    /\ decisions = [r \in 1..n |-> <<>>]
    /\ request = [r \in 1..n |-> NoRequest]
    /\ trace = [r \in 1..n |-> <<>>]

\* router.Use(rateLimiter.RateLimitMiddleware(maxRequests, duration)) with one
\* positive quota, in front of the route's handler.
Init ==
    /\ InitLimiter
    /\ InitRequests(NumRequests)
    /\ pagination = NoPagination
    /\ \E n \in 1..MaxQuota, w \in 1..MaxWindow :
            routes = {<<RateLimitMiddleware(n, w), RouteHandler>>}

Next ==
    \/ \E r \in Requests : Arrive(r)
    \/ \E r \in Requests : Lock(r)
    \/ \E r \in Requests : Prune(r)
    \/ \E r \in Requests : Reject(r)
    \/ \E r \in Requests : Admit(r)
    \/ \E r \in Requests : CallNext(r)
    \/ \E r \in Requests : Unlock(r)
    \/ \E r \in Requests : HandlerReturn(r)
    \/ Tick

Spec == Init /\ [][Next]_vars

\* ------------------------------------------------- Spec with fair scheduling
\* A request that has arrived is a goroutine the Go scheduler keeps running:
\* each step it can take while it stays possible is taken; and time passes.
\* Nothing obliges a client to send a request.
Step(r) ==
    \/ Lock(r) \/ Prune(r) \/ Reject(r) \/ Admit(r) \/ CallNext(r)
    \/ Unlock(r) \/ HandlerReturn(r)

FairSpec ==
    /\ Spec
    /\ WF_vars(Tick)
    /\ \A r \in 1..NumRequests : WF_vars(Step(r))

\* ------------------------------------------------- the example scenario
\* Quota N = 3 per W = 1000 ms for client "10.0.0.5"; the clock is read at
\* the instants of the example, in milliseconds.
ScenarioClient == "10.0.0.5"
ScenarioTimes == {0, 100, 200, 300, 1050}
ScenarioRoute == <<RateLimitMiddleware(3, 1000), RouteHandler>>

InitScenario ==
    /\ InitLimiter
    /\ InitRequests(Cardinality(ScenarioTimes))
    /\ pagination = NoPagination
    /\ routes = {ScenarioRoute}

ArriveScenario(r) == Arrive(r) /\ ip'[r] = ScenarioClient

\* Time passes to a later instant of the example.
TickScenario ==
    /\ \E t \in ScenarioTimes : t > clock /\ clock' = t
    /\ UNCHANGED <<requests, mu, routes, pool, pc, ip, handlers, index, aborted,
                   stack, now, recentRequests, written, handlerRuns, decisions>>
    /\ UNCHANGED <<request, trace, pagination>>

NextScenario ==
    \/ \E r \in Requests : ArriveScenario(r)
    \/ \E r \in Requests : Lock(r)
    \/ \E r \in Requests : Prune(r)
    \/ \E r \in Requests : Reject(r)
    \/ \E r \in Requests : Admit(r)
    \/ \E r \in Requests : CallNext(r)
    \/ \E r \in Requests : Unlock(r)
    \/ \E r \in Requests : HandlerReturn(r)
    \/ TickScenario

SpecScenario == InitScenario /\ [][NextScenario]_vars

\* ------------------------------------------------- one client, any quota
\* One more request than in Spec, all of one client, under any one quota.
InitOneClient ==
    /\ InitLimiter
    /\ InitRequests(NumRequests + 1)
    /\ pagination = NoPagination
    /\ \E n \in 1..MaxQuota, w \in 1..MaxWindow :
            routes = {<<RateLimitMiddleware(n, w), RouteHandler>>}

NextOneClient ==
    \/ \E r \in Requests : ArriveScenario(r)
    \/ \E r \in Requests : Lock(r)
    \/ \E r \in Requests : Prune(r)
    \/ \E r \in Requests : Reject(r)
    \/ \E r \in Requests : Admit(r)
    \/ \E r \in Requests : CallNext(r)
    \/ \E r \in Requests : Unlock(r)
    \/ \E r \in Requests : HandlerReturn(r)
    \/ Tick

SpecOneClient == InitOneClient /\ [][NextOneClient]_vars

\* ------------------------------------------- nested limiter middlewares
\* docs/MIDDLEWARE_PATTERNS.md, "Real-World Example": the group api uses
\* rateLimiter.RateLimitMiddleware(100, 1h) and the group admin inside it
\* uses rateLimiter.RateLimitMiddleware(10, 1h) of the same limiter.  A user
\* route has the api middleware in front of its handler, an admin route has
\* both.  The quotas are scaled to MaxQuota and 1 per MaxWindow.
ApiLimit == RateLimitMiddleware(MaxQuota, MaxWindow)
AdminLimit == RateLimitMiddleware(1, MaxWindow)

InitNested ==
    /\ InitLimiter
    /\ InitRequests(NumRequests)
    /\ pagination = NoPagination
    /\ routes = {<<ApiLimit, RouteHandler>>,
                 <<ApiLimit, AdminLimit, RouteHandler>>}

SpecNested == InitNested /\ [][Next]_vars

\* ------------------------------------- one limiter, a quota for each group
\* docs/MIDDLEWARE_PATTERNS.md, Pattern 7 and the usage of RateLimitMiddleware:
\* one rateLimiter builds the middleware of several groups, each with its own
\* quota (1000 per hour, 10 per minute, ...).  Two groups, with the quotas
\* scaled to MaxQuota per MaxWindow and 1 per 1; one client, as in
\* SpecOneClient.
PublicLimit == RateLimitMiddleware(MaxQuota, MaxWindow)
SensitiveLimit == RateLimitMiddleware(1, 1)

InitShared ==
    /\ InitLimiter
    /\ InitRequests(NumRequests + 1)
    /\ pagination = NoPagination
    /\ routes = {<<PublicLimit, RouteHandler>>, <<SensitiveLimit, RouteHandler>>}

SpecShared == InitShared /\ [][NextOneClient]_vars

\* ------------------------------------------------- any quota, unvalidated
\* NewRateLimiter() takes no parameter and RateLimitMiddleware(maxRequests,
\* duration) stores whatever int and time.Duration it is given: the quota and
\* the window may be negative, zero or positive.
InitUnvalidated ==
    /\ InitLimiter
    /\ InitRequests(NumRequests)
    /\ pagination = NoPagination
    /\ \E n \in -1..1, w \in -1..1 :
            routes = {<<RateLimitMiddleware(n, w), RouteHandler>>}

SpecUnvalidated == InitUnvalidated /\ [][Next]_vars

\* ------------------------------------------------------- the user routes
\* What the functions of a chain leave in trace: a call of a function, or
\* the status and the Response a helper passed to c.JSON.
Call(fn, err) ==
    [fn |-> fn, status |-> 0, success |-> FALSE, data |-> "", message |-> "",
     error |-> err]

JSON(code, success, data, message, err) ==
    [fn |-> "c.JSON", status |-> code, success |-> success, data |-> data,
     message |-> message, error |-> err]

\* internal/handlers/response/response.go: the helpers the user routes use.
SuccessOK(data) == JSON(StatusOf.SuccessOK, TRUE, data, "", "")
SuccessOKWithMessage(data, message) ==
    JSON(StatusOf.SuccessOKWithMessage, TRUE, data, message, "")
SuccessCreated(data) == JSON(StatusOf.SuccessCreated, TRUE, data, "", "")
\* c.JSON(http.StatusNoContent, nil): no Response at all.
SuccessNoContent == JSON(StatusOf.SuccessNoContent, FALSE, "", "", "")
ErrorBadRequest(message) ==
    JSON(StatusOf.ErrorBadRequest, FALSE, "", "", message)
ErrorUnauthorized(message) ==
    JSON(StatusOf.ErrorUnauthorized, FALSE, "", "", message)
ErrorNotFound(message) == JSON(StatusOf.ErrorNotFound, FALSE, "", "", message)
ErrorInternalServer(message) ==
    JSON(StatusOf.ErrorInternalServer, FALSE, "", "", message)

\* The statuses that the calls of c.JSON among events wrote, in order.
Statuses(events) ==
    LET js == SelectSeq(events, LAMBDA e : e.fn = "c.JSON")
    IN  [i \in DOMAIN js |-> js[i].status]

\* Mutant: the logged status is always gin's default.
StatusDefault(w) == StatusOf.SuccessOK

\* c.Writer.Status(): the status of the first write, gin's default 200 when
\* nothing was written.
Status(w) == IF w = <<>> THEN 200 ELSE w[1]

\* Mutant: a token of 10 bytes is valid too.
isValidTokenFrom10(token) == token # "" /\ Len(token) >= 10

\* isValidToken: return token != "" && len(token) > 10
isValidToken(token) == token # "" /\ Len(token) > 10

\* Mutant: DELETE is validated too.
NeedsJSONWithDelete(method) == method \in {"POST", "PUT", "PATCH", "DELETE"}

\* if method == "POST" || method == "PUT" || method == "PATCH"
NeedsJSON(method) == method \in {"POST", "PUT", "PATCH"}

\* ContentTypeMiddleware answers 400 and aborts.
ContentTypeAborts(method, contentType) ==
    NeedsJSON(method) /\ contentType # "application/json"

\* ------------------------------------------------------ strconv.ParseInt
\* A string is the sequence of its bytes.  An int64 is kept as its sign and
\* its decimal digits without leading zeros.
Digits == {"0", "1", "2", "3", "4", "5", "6", "7", "8", "9"}
DigitValue ==
    [d \in Digits |-> CHOOSE n \in 0..9 :
        d = <<"0", "1", "2", "3", "4", "5", "6", "7", "8", "9">>[n + 1]]

\* 1<<63 - 1 and 1<<63, the largest magnitudes of a positive and of a
\* negative int64.
MaxInt64 == 
    <<"9", "2", "2", "3", "3", "7", "2", "0", "3", "6", "8", "5", "4", "7", "7">> \o
    <<"5", "8", "0", "7">>
MinInt64Magnitude == 
    <<"9", "2", "2", "3", "3", "7", "2", "0", "3", "6", "8", "5", "4", "7", "7">> \o
    <<"5", "8", "0", "8">>

RECURSIVE StripZeros(_)
StripZeros(s) ==
    IF Len(s) > 1 /\ s[1] = "0" THEN StripZeros(Tail(s)) ELSE s

\* a <= b for two numbers in decimal digits without leading zeros.
AtMost(a, b) ==
    \/ Len(a) < Len(b)
    \/ /\ Len(a) = Len(b)
       /\ \/ a = b
          \/ \E i \in DOMAIN a :
                /\ DigitValue[a[i]] < DigitValue[b[i]]
                /\ \A j \in 1..(i - 1) : a[j] = b[j]

\* Mutant: the range of int64 is not checked.
ParseIntAnyRange(s) ==
    LET signed == s # <<>> /\ s[1] \in {"+", "-"}
        digits == IF signed THEN Tail(s) ELSE s
    IN  IF digits = <<>> \/ \E i \in DOMAIN digits : digits[i] \notin Digits
        THEN [ok |-> FALSE, err |-> "invalid syntax"]
        ELSE [ok |-> TRUE, err |-> ""]

\* strconv.ParseInt(s, 10, 64): an optional sign, then one or more decimal
\* digits (else a syntax error), of a value inside int64 (else a range
\* error).
ParseInt(s) ==
    LET signed == s # <<>> /\ s[1] \in {"+", "-"}
        neg == signed /\ s[1] = "-"
        digits == IF signed THEN Tail(s) ELSE s
    IN  IF digits = <<>> \/ \E i \in DOMAIN digits : digits[i] \notin Digits
        THEN [ok |-> FALSE, err |-> "invalid syntax"]
        ELSE IF ~AtMost(StripZeros(digits),
                        IF neg THEN MinInt64Magnitude ELSE MaxInt64)
        THEN [ok |-> FALSE, err |-> "value out of range"]
        ELSE [ok |-> TRUE, err |-> ""]

\* ------------------------------------------------ requests and the service
\* Values of the Authorization header (none, and 6, 10, 11 and 24 bytes
\* long), of the Content-Type header, and of the :id parameter.
Tokens ==
    {"", "Bearer", "0123456789", "Bearer abcd", "Bearer valid-token-12345"}
ContentTypes ==
    {"", "application/json", "text/plain", "application/json; charset=utf-8"}
IdParams ==
    {<<"1">>, <<"9", "9", "9">>, <<"0", "0", "7">>,
     <<"-", "5">>, <<"+", "7">>, <<"a", "b", "c">>,
     <<"1", "2", ".", "3", "4">>, <<"!", "@", "#", "$">>, <<"-">>,
     <<"1", " ">>,
     MaxInt64, MinInt64Magnitude, <<"-">> \o MinInt64Magnitude,
     <<"-">> \o MaxInt64 \o <<"0">>}

\* The errors the service hands up from the repository (gorm and the
\* database driver): their messages are not empty.
ServiceErrors == {"record not found", "connection refused"}
\* The error c.ShouldBindJSON gives for a body that is not a JSON user.
BindErrors == {"EOF"}

\* What a call of the service returns: an error, or the user.
ServiceResults ==
    {[err |-> e, data |-> ""] : e \in ServiceErrors}
        \cup {[err |-> "", data |-> "user"]}

\* UserRouter.Register: the routes of /api/v1/users and their chains.
UserRoutes ==
    LET write == <<LoggingMiddleware, AuthMiddleware, ContentTypeMiddleware>>
    IN  {[method |-> "GET", path |-> "/api/v1/users",
          chain |-> <<LoggingMiddleware, RouteHandler>>],
         [method |-> "GET", path |-> "/api/v1/users/:id",
          chain |-> <<LoggingMiddleware, Handler("GetUser")>>],
         [method |-> "POST", path |-> "/api/v1/users",
          chain |-> Append(write, Handler("CreateUser"))],
         [method |-> "PUT", path |-> "/api/v1/users/:id",
          chain |-> Append(write, Handler("UpdateUser"))],
         [method |-> "DELETE", path |-> "/api/v1/users/:id",
          chain |-> Append(write, Handler("DeleteUser"))]}

\* --------------------------------------------- the chain of a user route
\* engine.ServeHTTP: a request arrives on one of the user routes, with any
\* of the header values, and with an :id when the route has one.
ServeHTTP(r) ==
    /\ pc[r] = "idle"
    /\ \A q \in Requests : q < r => pc[q] # "idle"
    /\ \E rt \in UserRoutes, c \in Clients, token \in Tokens,
          ct \in ContentTypes, id \in IdParams \cup {<<>>} :
        /\ rt.chain \in routes
        /\ id # <<>> <=> rt.path = "/api/v1/users/:id"
        /\ request' = [request EXCEPT ![r] =
                [method |-> rt.method, path |-> rt.path,
                 authorization |-> token, contentType |-> ct, id |-> id]]
        /\ ip' = [ip EXCEPT ![r] = c]
        /\ handlers' = [handlers EXCEPT ![r] = rt.chain]
        /\ index' = [index EXCEPT ![r] = 1]
        /\ stack' = [stack EXCEPT ![r] = <<1>>]
        /\ pc' = [pc EXCEPT ![r] = EntryPc(rt.chain[1])]
    /\ UNCHANGED <<requests, mu, clock, routes, pool, aborted, now,
                   recentRequests, written, handlerRuns, decisions, trace,
                   pagination>>

\* c.Next() called by the executing middleware: c.index++ and the next
\* handler of the chain is called, if there is one.
CNext(r) ==
    LET i == index[r] + 1
    IN  IF i <= Len(handlers[r]) /\ ~aborted[r]
        THEN Invoke(r, i, stack[r])
        ELSE /\ index' = [index EXCEPT ![r] = i]
             /\ pc' = [pc EXCEPT ![r] = ResumePc(Executing(r))]
             /\ UNCHANGED <<stack, handlerRuns>>

\* The executing function has started and calls c.Next().
Continue(r) ==
    /\ trace' = [trace EXCEPT ![r] = Append(@, Call(Executing(r).kind, ""))]
    /\ CNext(r)
    /\ UNCHANGED <<requests, mu, clock, routes, pool, ip, handlers, aborted,
                   now, recentRequests, written, decisions, request,
                   pagination>>

\* The executing middleware has started, answers with response and
\* c.Abort(), and has its return left.
AbortWith(r, response) ==
    /\ trace' = [trace EXCEPT ![r] =
            Append(Append(@, Call(Executing(r).kind, "")), response)]
    /\ written' = [written EXCEPT ![r] = Append(@, response.status)]
    /\ aborted' = [aborted EXCEPT ![r] = TRUE]
    /\ pc' = [pc EXCEPT ![r] = "return"]
    /\ UNCHANGED <<requests, mu, clock, routes, pool, ip, handlers, index,
                   stack, now, recentRequests, handlerRuns, decisions, request,
                   pagination>>

\* The executing handler has started, does what events tells (calls of the
\* service, then one response) and returns.
Handle(r, events) ==
    /\ trace' = [trace EXCEPT ![r] =
            Append(@, Call(Executing(r).kind, "")) \o events]
    /\ Return(r, written[r] \o Statuses(events))
    /\ UNCHANGED <<requests, mu, clock, routes, pool, ip, handlers, now,
                   recentRequests, decisions, request,
                   pagination>>

\* LoggingMiddleware up to its c.Next() (startTime is only logged).
LoggingBefore(r) == pc[r] = "logging" /\ Continue(r)

\* LoggingMiddleware after its c.Next(): the status of the response is
\* logged, and the middleware returns.
LoggingAfter(r) ==
    /\ pc[r] = "log"
    /\ trace' = [trace EXCEPT ![r] =
            Append(@, [Call("log.Printf", "") EXCEPT
                            !.status = Status(written[r])])]
    /\ Return(r, written[r])
    /\ UNCHANGED <<requests, mu, clock, routes, pool, ip, handlers, now,
                   recentRequests, decisions, request,
                   pagination>>

\* AuthMiddleware: no Authorization header, or a token that is not valid.
AuthAbort(r) ==
    /\ pc[r] = "auth"
    /\ LET token == request[r].authorization
       IN  \/ /\ token = ""
              /\ AbortWith(r, ErrorUnauthorized("Authorization header missing"))
           \/ /\ token # ""
              /\ ~isValidToken(token)
              /\ AbortWith(r, ErrorUnauthorized("Invalid or expired token"))

\* AuthMiddleware: the token is valid.
AuthNext(r) ==
    /\ pc[r] = "auth"
    /\ request[r].authorization # ""
    /\ isValidToken(request[r].authorization)
    /\ Continue(r)

ContentTypeAbort(r) ==
    /\ pc[r] = "contenttype"
    /\ ContentTypeAborts(request[r].method, request[r].contentType)
    /\ AbortWith(r, ErrorBadRequest("Content-Type must be application/json"))

ContentTypeNext(r) ==
    /\ pc[r] = "contenttype"
    /\ ~ContentTypeAborts(request[r].method, request[r].contentType)
    /\ Continue(r)

\* AuthMiddleware or ContentTypeMiddleware returns.
MiddlewareReturn(r) ==
    /\ pc[r] = "return"
    /\ Return(r, written[r])
    /\ UNCHANGED <<requests, mu, clock, routes, pool, ip, handlers, now,
                   recentRequests, decisions, request, trace,
                   pagination>>

\* UserHandler.GetUser
GetUser(r) ==
    /\ pc[r] = "GetUser"
    /\ IF ~ParseInt(request[r].id).ok
       THEN Handle(r, <<ErrorBadRequest("invalid id")>>)
       ELSE \E res \in ServiceResults :
                Handle(r, <<Call("userService.GetUser", res.err),
                            IF res.err # "" THEN ErrorNotFound(res.err)
                                            ELSE SuccessOK(res.data)>>)

\* UserHandler.CreateUser
CreateUser(r) ==
    /\ pc[r] = "CreateUser"
    /\ \/ \E e \in BindErrors : Handle(r, <<ErrorBadRequest(e)>>)
       \/ \E res \in ServiceResults :
                Handle(r, <<Call("userService.CreateUser", res.err),
                            IF res.err # "" THEN ErrorInternalServer(res.err)
                                            ELSE SuccessCreated(res.data)>>)

\* UserHandler.UpdateUser
UpdateUser(r) ==
    /\ pc[r] = "UpdateUser"
    /\ IF ~ParseInt(request[r].id).ok
       THEN Handle(r, <<ErrorBadRequest("invalid id")>>)
       ELSE \/ \E e \in BindErrors : Handle(r, <<ErrorBadRequest(e)>>)
            \/ \E res \in ServiceResults :
                Handle(r, <<Call("userService.UpdateUser", res.err),
                            IF res.err # ""
                            THEN ErrorInternalServer(res.err)
                            ELSE SuccessOKWithMessage("user",
                                    "User updated successfully")>>)

\* UserHandler.DeleteUser
DeleteUser(r) ==
    /\ pc[r] = "DeleteUser"
    /\ IF ~ParseInt(request[r].id).ok
       THEN Handle(r, <<ErrorBadRequest("invalid id")>>)
       ELSE \E res \in ServiceResults :
                Handle(r, <<Call("userService.DeleteUser", res.err),
                            IF res.err # "" THEN ErrorInternalServer(res.err)
                                            ELSE SuccessNoContent>>)

\* router.ServeHTTP on the user routes.  The functions of these chains share
\* nothing between requests: one request shows what every request does.
InitUsers ==
    /\ InitLimiter
    /\ InitRequests(1)
    /\ pagination = NoPagination
    /\ routes = {rt.chain : rt \in UserRoutes}

NextUsers ==
    \/ \E r \in Requests : ServeHTTP(r)
    \/ \E r \in Requests : LoggingBefore(r)
    \/ \E r \in Requests : AuthAbort(r)
    \/ \E r \in Requests : AuthNext(r)
    \/ \E r \in Requests : ContentTypeAbort(r)
    \/ \E r \in Requests : ContentTypeNext(r)
    \/ \E r \in Requests : MiddlewareReturn(r)
    \/ \E r \in Requests : GetUser(r)
    \/ \E r \in Requests : CreateUser(r)
    \/ \E r \in Requests : UpdateUser(r)
    \/ \E r \in Requests : DeleteUser(r)
    \/ \E r \in Requests : HandlerReturn(r)
    \/ \E r \in Requests : LoggingAfter(r)

SpecUsers == InitUsers /\ [][NextUsers]_vars

\* ------------------------------------------------- building paginations
\* 2^k as a pattern, for k < 64.
Pow2(k) == ShiftLimbs(Word(2^(k % 16)), k \div 16)

\* The arguments NewPagination is called with: around each of its
\* thresholds, and at the ends of the types.
Pages ==
    {Int64(-1), Int64(0), Int64(1), Int64(2), Int64(3),
     AddSmall(Pow2(62), 1), MaxInt, MinInt}
PageSizes ==
    {Int64(-1), Int64(0), Int64(1), Int64(2), Int64(10), Int64(100),
     Int64(101), MaxInt, MinInt}
Totals ==
    {Int64(-25), Int64(-1), Int64(0), Int64(1), Int64(3), Int64(9),
     Int64(10), Int64(11), Int64(25), Int64(100), Int64(101), Int64(1000),
     Pow2(Significand), AddSmall(Pow2(Significand), 1),
     AddSmall(Pow2(Significand), 3), MaxInt, MinInt}

\* p := utils.NewPagination(page, pageSize, total), once in a run.
New ==
    /\ pagination.op = ""
    /\ \E page \in Pages, pageSize \in PageSizes, total \in Totals :
       \E p \in NewPagination(page, pageSize, total) :
            pagination' = [op |-> "NewPagination", page |-> page,
                           pageSize |-> pageSize, total |-> total, p |-> p,
                           steps |-> 0]
    /\ UNCHANGED <<requests, mu, clock, routes, pool, pc, ip, handlers, index,
                   aborted, stack, now, recentRequests, written, handlerRuns,
                   decisions, request, trace>>

\* p.Page = p.GetNextPage(), at most MaxSteps pages are turned in a run.
NextPage ==
    /\ pagination.op # ""
    /\ pagination.steps < MaxSteps
    /\ pagination' = [pagination EXCEPT !.op = "GetNextPage",
                            !.p.Page = GetNextPage(pagination.p),
                            !.steps = @ + 1]
    /\ UNCHANGED <<requests, mu, clock, routes, pool, pc, ip, handlers, index,
                   aborted, stack, now, recentRequests, written, handlerRuns,
                   decisions, request, trace>>

\* p.Page = p.GetPreviousPage()
PreviousPage ==
    /\ pagination.op # ""
    /\ pagination.steps < MaxSteps
    /\ pagination' = [pagination EXCEPT !.op = "GetPreviousPage",
                            !.p.Page = GetPreviousPage(pagination.p),
                            !.steps = @ + 1]
    /\ UNCHANGED <<requests, mu, clock, routes, pool, pc, ip, handlers, index,
                   aborted, stack, now, recentRequests, written, handlerRuns,
                   decisions, request, trace>>

\* No router, no request: paginations are built and paged through.
InitPagination ==
    /\ InitLimiter
    /\ InitRequests(0)
    /\ routes = {}
    /\ pagination = NoPagination

NextPagination ==
    \/ New
    \/ NextPage
    \/ PreviousPage

SpecPagination == InitPagination /\ [][NextPagination]_vars

\* ------------------------------------------------------ reading the history
\* The one quota of the specification Spec: the middleware of its route.
Quota == (CHOOSE chain \in routes : TRUE)[1]

Decided(r) == decisions[r] # <<>>
Admitted(r) == Decided(r) /\ decisions[r][1].admit
Rejected(r) == Decided(r) /\ ~decisions[r][1].admit
At(r) == decisions[r][1].at

\* The requests of client c admitted in the trailing interval (t - W, t].
AdmittedWithin(c, t) ==
    {r \in Requests : /\ Admitted(r)
                      /\ ip[r] = c
                      /\ At(r) <= t
                      /\ t - At(r) < Quota.duration}

DecidedOf(c) == {r \in Requests : Decided(r) /\ ip[r] = c}

Min(a, b) == IF a <= b THEN a ELSE b

\* ------------------------------------------------------------------- claims
\* C1: for every client and every instant t so far, the number of requests
\* of that client admitted in the trailing interval (t - W, t] is at most
\* the quota N.
C1_AdmittedWithinQuota ==
    \A c \in Clients : \A t \in 0..clock :
        Cardinality(AdmittedWithin(c, t)) <= Quota.maxRequests

\* N requests of one client admitted inside one window, and one more of that
\* client rejected in it.
C1_Witness ==
    \E c \in Clients :
        /\ Cardinality(AdmittedWithin(c, clock)) = Quota.maxRequests
        /\ \E r \in Requests : Rejected(r) /\ ip[r] = c /\ clock - At(r) < Quota.duration

\* All decided requests of client c fall inside one window: no timestamp of
\* one of them has aged out when another is decided.
OneWindow(c) ==
    \A p, q \in DecidedOf(c) : At(p) - At(q) < Quota.duration

\* C2: when the requests decided so far for one client all fall inside one
\* window, exactly min(K, N) of these K requests are admitted and the others
\* are rejected, whatever the interleaving: with K > N exactly N are admitted.
C2_ExactlyQuotaAdmitted ==
    \A c \in Clients :
        OneWindow(c) =>
            Cardinality({r \in DecidedOf(c) : Admitted(r)})
                = Min(Cardinality(DecidedOf(c)), Quota.maxRequests)

\* K > N requests of one client decided inside one window, N admitted and
\* K - N rejected, where a request that arrived later (higher id) was decided
\* before one that arrived earlier: the two were in the middleware together.
C2_Witness ==
    \E c \in Clients :
        /\ OneWindow(c)
        /\ Cardinality(DecidedOf(c)) > Quota.maxRequests
        /\ Cardinality({r \in DecidedOf(c) : Admitted(r)}) = Quota.maxRequests
        /\ Cardinality({r \in DecidedOf(c) : Rejected(r)}) >= 2
        /\ \E p, q \in DecidedOf(c) : p < q /\ At(q) < At(p)

\* Request r is decided (admitted or rejected) in this step.
DecidedNow(r) == pc[r] = "check" /\ pc'[r] # "check"

\* The stored timestamps of client c that the claims count at time t: those
\* less than W old.
Counted(c, t) ==
    SelectSeq(Lookup(requests, c), LAMBDA u : t - u < Quota.duration)

Earliest(log) == CHOOSE t \in Range(log) : \A u \in Range(log) : t <= u

\* C3: a request that finds N admitted requests of its client inside the
\* window is rejected, and the steps of a rejected request (reading and
\* pruning, then rejecting) leave every stored timestamp as it was: a
\* rejection consumes no quota.
C3_RejectionConsumesNoQuota ==
    [][\A r \in Requests :
        /\ (pc[r] = "now" /\ pc'[r] = "check") =>
                \A c \in Clients : Lookup(requests', c) = Lookup(requests, c)
        /\ DecidedNow(r) =>
            /\ Cardinality(AdmittedWithin(ip[r], now[r])) >= Quota.maxRequests
                    => Rejected(r)'
            /\ Rejected(r)' => requests' = requests]_vars

\* A client with N admitted requests inside the window has been rejected at
\* two different times since, and still holds exactly its N timestamps.
C3_Witness ==
    \E c \in Clients :
        /\ Cardinality(AdmittedWithin(c, clock)) = Quota.maxRequests
        /\ Len(Lookup(requests, c)) = Quota.maxRequests
        /\ \E p, q \in DecidedOf(c) :
            /\ Rejected(p) /\ Rejected(q) /\ At(p) < At(q)
            /\ \A a \in AdmittedWithin(c, clock) : At(a) <= At(p)

\* C4: a request decided when W or more has elapsed since the earliest
\* stored timestamp of its client is admitted, and the stored window becomes
\* the timestamps still less than W old followed by the new one: only the
\* expired timestamps are released.
C4_WindowSlides ==
    [][\A r \in Requests :
        LET stored == Lookup(requests, ip[r])
        IN  (/\ DecidedNow(r)
             /\ stored # <<>>
             /\ now[r] - Earliest(stored) >= Quota.duration) =>
                /\ Admitted(r)'
                /\ requests'[ip[r]] = Append(Counted(ip[r], now[r]), now[r])]_vars

\* With N >= 2: N requests of a client were admitted, a later one was
\* rejected, and the request just admitted came W or more after the first
\* admission while the other N - 1 timestamps are still stored.
C4_Witness ==
    \E r \in Requests :
        /\ pc[r] = "next" /\ Admitted(r)
        /\ Quota.maxRequests >= 2
        /\ Len(requests[ip[r]]) = Quota.maxRequests
        /\ requests[ip[r]][1] < At(r)
        /\ \E q \in DecidedOf(ip[r]) :
            /\ Rejected(q) /\ At(q) < At(r)
            /\ Cardinality({a \in DecidedOf(ip[r]) : Admitted(a) /\ At(a) <= At(q)})
                    = Quota.maxRequests
            /\ \E a \in DecidedOf(ip[r]) :
                    Admitted(a) /\ At(r) - At(a) >= Quota.duration

\* C5: a step of a request leaves the map entry of every other client as it
\* was (present or absent, and its timestamps), and a request is admitted
\* exactly when fewer than N requests of its own client were admitted inside
\* the window: the requests of other clients do not enter the decision.
C5_ClientsIndependent ==
    [][\A r \in Requests :
        /\ pc'[r] # pc[r] =>
            \A c \in Clients \ {ip'[r]} :
                /\ c \in DOMAIN requests' <=> c \in DOMAIN requests
                /\ Lookup(requests', c) = Lookup(requests, c)
        /\ DecidedNow(r) =>
            (Admitted(r)' <=>
                Cardinality(AdmittedWithin(ip[r], now[r])) < Quota.maxRequests)]_vars

\* One client has used up its quota and been rejected; a request of another
\* client, decided no earlier than that rejection, was admitted.
C5_Witness ==
    \E a, b \in Clients :
        /\ a # b
        /\ Cardinality(AdmittedWithin(a, clock)) = Quota.maxRequests
        /\ \E p \in DecidedOf(a), q \in DecidedOf(b) :
            /\ Rejected(p) /\ Admitted(q) /\ At(q) >= At(p)
            /\ At(q) \in Range(requests[b])

\* C6: what a request counts is the stored timestamps of its client less
\* than W old at its now: a timestamp exactly W old is dropped, one W - 1 old
\* is kept, and the request is over the limit exactly when N or more are
\* less than W old.
C6_HalfOpenWindow ==
    \A r \in Requests :
        pc[r] = "check" =>
            LET stored == Lookup(requests, ip[r])
            IN  /\ \A i \in DOMAIN stored :
                    /\ now[r] - stored[i] = Quota.duration
                            => stored[i] \notin Range(recentRequests[r])
                    /\ now[r] - stored[i] = Quota.duration - 1
                            => stored[i] \in Range(recentRequests[r])
                /\ recentRequests[r] = Counted(ip[r], now[r])
                /\ LimitExceeded(recentRequests[r], Quota.maxRequests)
                    <=> Len(Counted(ip[r], now[r])) >= Quota.maxRequests

\* A request about to be admitted although its client has a stored timestamp
\* exactly W old, which it dropped, next to one W - 1 old, which it counted.
C6_Witness ==
    \E r \in Requests :
        /\ pc[r] = "check"
        /\ ~LimitExceeded(recentRequests[r], Quota.maxRequests)
        /\ \E t, u \in Range(Lookup(requests, ip[r])) :
            /\ now[r] - t = Quota.duration
            /\ now[r] - u = Quota.duration - 1
            /\ t \notin Range(recentRequests[r])
            /\ u \in Range(recentRequests[r])

\* The client's requests were decided one at each instant of the example.
CalledAtScenarioTimes ==
    /\ Cardinality(DecidedOf(ScenarioClient)) = Cardinality(ScenarioTimes)
    /\ \A t \in ScenarioTimes : \E r \in DecidedOf(ScenarioClient) : At(r) = t

\* C7: with N = 3 and W = 1000 ms, calls of one client at 0, 100, 200, 300
\* and 1050 ms are admitted, admitted, admitted, rejected, admitted, and the
\* stored window is then 100, 200, 1050.
C7_ExampleScenario ==
    CalledAtScenarioTimes =>
        /\ \A r \in DecidedOf(ScenarioClient) : Admitted(r) <=> At(r) # 300
        /\ requests[ScenarioClient] = <<100, 200, 1050>>

\* The five calls of the example have been made and have all returned.
C7_Witness ==
    /\ CalledAtScenarioTimes
    /\ \A r \in Requests : pc[r] = "done"

\* C8: a rejected request is returning from the middleware, with exactly
\* the 429 response written, its chain aborted and its route handler not
\* run, or has returned to the engine: its route handler never runs.  429 is
\* the status of no other response helper and is written for rejected
\* requests only.
C8_RejectionWrites429AndAborts ==
    /\ \A h \in Helpers \ {"ErrorTooManyRequests"} : StatusOf[h] # 429
    /\ \A r \in Requests :
        /\ Rejected(r) =>
            /\ pc[r] \in {"unlock", "done"}
            /\ pc[r] = "unlock" =>
                /\ written[r] = <<429>>
                /\ aborted[r]
                /\ handlerRuns[r] = 0
        /\ 429 \in Range(written[r]) => Rejected(r)

\* One rejected request has returned to the engine, another is returning
\* with its 429 written.
C8_Witness ==
    \E r, q \in Requests :
        /\ Rejected(r) /\ pc[r] = "done"
        /\ Rejected(q) /\ pc[q] = "unlock" /\ written[q] = <<429>> /\ aborted[q]

\* C9: an admitted request is not aborted; when it is about to call c.Next()
\* its timestamp is stored, nothing is written and the route handler has not
\* run; the handler then runs once, and when the middleware returns the one
\* response written is the handler's.
C9_AdmissionRunsHandlerOnce ==
    \A r \in Requests :
        Admitted(r) =>
            /\ ~aborted[r]
            /\ pc[r] \in {"next", "handler", "unlock", "done"}
            /\ pc[r] = "next" =>
                /\ At(r) \in Range(Lookup(requests, ip[r]))
                /\ handlerRuns[r] = 0
                /\ written[r] = <<>>
            /\ pc[r] = "handler" => handlerRuns[r] = 1 /\ written[r] = <<>>
            /\ pc[r] = "unlock" =>
                /\ handlerRuns[r] = 1
                /\ Len(written[r]) = 1
                /\ written[r][1] \in {StatusOf[h] : h \in GetAllUsersHelpers}

\* One admitted request has returned to the engine, another is returning
\* from the middleware after its route handler ran once and wrote 200.
C9_Witness ==
    \E r, q \in Requests :
        /\ Admitted(r) /\ pc[r] = "done"
        /\ Admitted(q) /\ pc[q] = "unlock"
        /\ handlerRuns[q] = 1 /\ written[q] = <<200>>

\* C10: the limiter's mutex is released before the admitted request's route
\* handler runs: a request blocked in Lock never waits for a holder that is
\* inside the route handler, only for one taking its admission decision.
C10_LockReleasedBeforeHandler ==
    \A r, q \in Requests :
        (r # q /\ pc[r] = "lock" /\ pc[q] = "handler") => mu # q


\* C11: a request whose chain holds two middlewares of one limiter always
\* completes: it never waits in Lock for the mutex while it is itself the
\* holder, a wait that nothing can end.
C11_NestedRequestCompletes ==
    \A r \in Requests : ~(pc[r] = "lock" /\ mu = r)

\* The middleware that decided request r.
Limiter(r) == handlers[r][decisions[r][1].by]

\* The requests of client c that middleware mw admitted in the trailing
\* interval of its own window ending at t.
AdmittedBy(mw, c, t) ==
    {r \in Requests : /\ Admitted(r)
                      /\ ip[r] = c
                      /\ Limiter(r) = mw
                      /\ At(r) <= t
                      /\ t - At(r) < mw.duration}

\* C12: each middleware built from a shared limiter enforces its own limit:
\* for every client and every instant t so far, the requests it admitted in
\* the trailing interval of its own window ending at t number at most its own
\* maxRequests, whatever the client sent to the other group.
C12_EachGroupKeepsItsLimit ==
    \A chain \in routes : \A c \in Clients : \A t \in 0..clock :
        Cardinality(AdmittedBy(chain[1], c, t)) <= chain[1].maxRequests

\* The requests that have arrived and the clients they came from.
Arrived == {r \in Requests : pc[r] # "idle"}
Seen == {ip[r] : r \in Arrived}

\* Every client has made exactly one request, the request has returned and
\* more than W has passed since it was decided.
OneShotClientsSilent ==
    /\ Seen = Clients
    /\ \A r \in Arrived :
        /\ pc[r] = "done"
        /\ clock - At(r) > Quota.duration
        /\ \A q \in Arrived \ {r} : ip[q] # ip[r]

\* C13: when distinct clients have each made exactly one request and stay
\* silent for longer than the window from then on, the number of clients
\* tracked in the map eventually falls below the number of clients ever seen.
C13_TrackedClientsFall ==
    <>[]OneShotClientsSilent =>
        <>(/\ OneShotClientsSilent
           /\ Cardinality(DOMAIN requests) < Cardinality(Seen))

\* C14 as stated: at every instant, for every client, the number of stored
\* timestamps equals the number of its requests admitted within the trailing
\* window ending at that instant.
C14_StoredEqualsAdmittedInWindow ==
    \A c \in Clients :
        Len(Lookup(requests, c)) = Cardinality(AdmittedWithin(c, clock))

\* C14 amended: at every instant, for every client, the stored timestamps
\* less than W old are as many as its requests admitted within the trailing
\* window ending at that instant, and a request that has pruned counts
\* exactly the requests of its client admitted within the window ending at
\* its now.  Older timestamps may stay stored until the client's next
\* admission.
C14_UnexpiredStoredEqualsAdmittedInWindow ==
    /\ \A c \in Clients :
        Len(Counted(c, clock)) = Cardinality(AdmittedWithin(c, clock))
    /\ \A r \in Requests :
        pc[r] = "check" =>
            Len(recentRequests[r]) = Cardinality(AdmittedWithin(ip[r], now[r]))

\* A request has pruned the stored timestamps of its client, of which one
\* has expired and one has not, and counts the one that has not.
C14_Witness ==
    \E r \in Requests :
        /\ pc[r] = "check"
        /\ Len(recentRequests[r]) >= 1
        /\ Len(Lookup(requests, ip[r])) > Len(recentRequests[r])
        /\ Len(Counted(ip[r], clock)) = Len(recentRequests[r])

\* C15: when a request has been rejected and its middleware is returning,
\* the stored window of its client is the filtered set: it holds no
\* timestamp t with now - t >= W, for the now and the window W of the
\* rejecting middleware.
C15_RejectionStoresFilteredWindow ==
    \A r \in Requests :
        (Rejected(r) /\ pc[r] = "unlock") =>
            \A t \in Range(Lookup(requests, ip[r])) :
                now[r] - t < Limiter(r).duration

\* C16: a non-positive maxRequests or window is refused when the middleware
\* is built: every request that is decided is decided by a middleware with
\* maxRequests > 0 and duration > 0.
C16_NoDecisionUnderNonPositiveQuota ==
    \A r \in Requests :
        Decided(r) => Limiter(r).maxRequests > 0 /\ Limiter(r).duration > 0

\* ------------------------------------------------------- reading the trace
\* The functions that left an entry in the trace of r, in order.
Fns(r) == [i \in DOMAIN trace[r] |-> trace[r][i].fn]

\* The functions of the chain that ran and the log line, in order.
ChainRun(r) ==
    SelectSeq(Fns(r), LAMBDA fn :
        fn \in {"logging", "auth", "contenttype", "log.Printf"} \cup UserHandlers)

\* The responses written for r and their statuses.
Responses(r) == SelectSeq(trace[r], LAMBDA e : e.fn = "c.JSON")

\* Middleware fn answered by itself: its entry is followed by a response.
AbortedBy(r, fn) ==
    \E i \in DOMAIN trace[r] :
        /\ trace[r][i].fn = fn
        /\ i < Len(trace[r])
        /\ trace[r][i + 1].fn = "c.JSON"

HandlerRan(r) == \E fn \in UserHandlers : fn \in Range(Fns(r))

IsPrefix(a, b) == Len(a) <= Len(b) /\ a = SubSeq(b, 1, Len(a))

\* The order in which the chain of POST /api/v1/users runs.
ExpectedOrder(r) ==
    IF AbortedBy(r, "auth") THEN <<"logging", "auth", "log.Printf">>
    ELSE IF AbortedBy(r, "contenttype")
    THEN <<"logging", "auth", "contenttype", "log.Printf">>
    ELSE <<"logging", "auth", "contenttype", "CreateUser", "log.Printf">>

\* C17: for POST /api/v1/users the functions run in the order
\* LoggingMiddleware, AuthMiddleware, ContentTypeMiddleware, CreateUser and
\* then the log line of LoggingMiddleware; when AuthMiddleware or
\* ContentTypeMiddleware aborts, nothing after it runs except that log line,
\* which logs the status of the abort (401, 400); the log line is the last
\* thing that happens and logs the status of the one response.
C17_PostUsersChainOrder ==
    \A r \in Requests :
        request[r].method = "POST" =>
            /\ IsPrefix(ChainRun(r), ExpectedOrder(r))
            /\ pc[r] = "done" =>
                LET last == trace[r][Len(trace[r])]
                IN  /\ ChainRun(r) = ExpectedOrder(r)
                    /\ last.fn = "log.Printf"
                    /\ Statuses(trace[r]) = <<last.status>>
                    /\ AbortedBy(r, "auth") =>
                            last.status = 401 /\ ~HandlerRan(r)
                    /\ AbortedBy(r, "contenttype") =>
                            last.status = 400 /\ ~HandlerRan(r)

\* A POST has passed AuthMiddleware, was aborted by ContentTypeMiddleware,
\* and LoggingMiddleware has logged 400 and returned.
C17_Witness ==
    \E r \in Requests :
        /\ request[r].method = "POST"
        /\ pc[r] = "done"
        /\ Fns(r) = <<"logging", "auth", "contenttype", "c.JSON", "log.Printf">>
        /\ trace[r][Len(trace[r])].status = 400

Methods == {"GET", "HEAD", "POST", "PUT", "PATCH", "DELETE", "OPTIONS"}

\* C19: ContentTypeMiddleware answers 400 and aborts exactly for the
\* methods POST, PUT and PATCH with a Content-Type other than exactly
\* application/json, for every method and every Content-Type; and once it
\* has run on a request, either it aborted with the one response 400 and
\* the handler never runs, or the handler is what runs next.
C19_ContentTypeChecksBodiesOnly ==
    /\ \A m \in Methods, ct \in ContentTypes :
        ContentTypeAborts(m, ct) <=>
            (m \in {"POST", "PUT", "PATCH"} /\ ct # "application/json")
    /\ \A r \in Requests :
        "contenttype" \in Range(Fns(r)) =>
            IF /\ request[r].method \in {"POST", "PUT", "PATCH"}
               /\ request[r].contentType # "application/json"
            THEN /\ AbortedBy(r, "contenttype")
                 /\ Statuses(trace[r]) = <<400>>
                 /\ ~HandlerRan(r)
                 /\ pc[r] \in {"return", "log", "done"}
                 /\ pc[r] # "done" =>
                        aborted[r] /\ written[r] = <<400>> /\ handlerRuns[r] = 0
            ELSE /\ ~AbortedBy(r, "contenttype")
                 /\ pc[r] \in UserHandlers \/ HandlerRan(r)

\* A DELETE with Content-Type text/plain has passed ContentTypeMiddleware,
\* its handler DeleteUser has run and the request has returned.
C19_Witness ==
    \E r \in Requests :
        /\ request[r].method = "DELETE"
        /\ request[r].contentType = "text/plain"
        /\ pc[r] = "done"
        /\ IsPrefix(<<"logging", "auth", "contenttype", "DeleteUser">>, Fns(r))

\* The :id values that are a base-10 int64: 1, 999, 007, -5, +7, the largest
\* int64 and the smallest.  The others are not: letters, a decimal point,
\* punctuation, a sign alone, a trailing space, and the two magnitudes out
\* of range.
Int64Ids ==
    {<<"1">>, <<"9", "9", "9">>, <<"0", "0", "7">>, <<"-", "5">>, <<"+", "7">>,
     MaxInt64, <<"-">> \o MinInt64Magnitude}

\* The calls of the service made for r.
ServiceCalls(r) ==
    SelectSeq(trace[r], LAMBDA e : e.fn = "userService.GetUser")

\* C20: once GetUser has run, exactly one response is written.  For an :id
\* that is not a base-10 int64 it is 400 with success = false and the
\* service was not called; otherwise the service was called once, and the
\* response is 404 with success = false and the service's non-empty error
\* message when it returned an error, 200 with success = true and the user
\* as data when it did not.
C20_GetUserStatuses ==
    \A r \in Requests :
        "GetUser" \in Range(Fns(r)) =>
            LET resp == Responses(r)[1]
                calls == ServiceCalls(r)
            IN  /\ Len(Responses(r)) = 1
                /\ pc[r] = "log" => written[r] = <<resp.status>>
                /\ IF request[r].id \notin Int64Ids
                   THEN /\ resp.status = 400 /\ resp.success = FALSE
                        /\ resp.error # ""
                        /\ calls = <<>>
                   ELSE /\ Len(calls) = 1
                        /\ IF calls[1].error # ""
                           THEN /\ resp.status = 404 /\ resp.success = FALSE
                                /\ resp.error = calls[1].error
                                /\ resp.data = ""
                           ELSE /\ resp.status = 200 /\ resp.success = TRUE
                                /\ resp.data = "user" /\ resp.error = ""

\* GetUser has answered 400 for the :id 9223372036854775808, one more than
\* the largest int64, without calling the service, and the request has
\* returned.
C20_Witness ==
    \E r \in Requests :
        /\ request[r].id = MinInt64Magnitude
        /\ pc[r] = "done"
        /\ Fns(r) = <<"logging", "GetUser", "c.JSON", "log.Printf">>
        /\ Statuses(trace[r]) = <<400>>

\* ------------------------------------------------------------------- C21
\* The whole quotient of total by a page size, rounded up.
Ceiling(total, size) ==
    LET qr == DivSmall(total, size[1])
    IN  IF qr.r = 0 THEN qr.q ELSE AddSmall(qr.q, 1)

Built == pagination.op = "NewPagination"

\* C21: NewPagination(page, pageSize, total) returns Page 1 for a page
\* below 1 and the page otherwise; PageSize 10 for a pageSize below 1, 100
\* for one above 100 and the pageSize otherwise; and, for a total of at
\* least 0, TotalPage the ceiling of total / PageSize.
C21_NewPaginationNormalises ==
    Built =>
        LET a == pagination
            p == pagination.p
        IN  /\ p.Page = IF Less(a.page, Int64(1)) THEN Int64(1) ELSE a.page
            /\ p.PageSize = IF Less(a.pageSize, Int64(1)) THEN Int64(10)
                            ELSE IF Less(Int64(100), a.pageSize)
                                 THEN Int64(100)
                                 ELSE a.pageSize
            /\ ~IsNegative(a.total) => p.TotalPage = Ceiling(a.total, p.PageSize)

\* ------------------------------------------------------------------- C22
\* 1 <= p.Page <= p.TotalPage
InRange(p) == ~Less(p.Page, Int64(1)) /\ ~Less(p.TotalPage, p.Page)

\* C22: GetPreviousPage returns Page - 1 when Page > 1 and Page otherwise,
\* GetNextPage returns Page + 1 when Page < TotalPage and Page otherwise;
\* turning pages from a Page within 1..TotalPage stays within 1..TotalPage.
C22_PagingStaysInRange ==
    [][pagination.op # "" =>
        LET p == pagination.p
            q == pagination'.p
        IN  /\ pagination'.op = "GetPreviousPage" =>
                    q.Page = IF Less(Int64(1), p.Page)
                             THEN Sub(p.Page, Int64(1))
                             ELSE p.Page
            /\ pagination'.op = "GetNextPage" =>
                    q.Page = IF Less(p.Page, p.TotalPage)
                             THEN Add(p.Page, Int64(1))
                             ELSE p.Page
            /\ InRange(p) => InRange(q)]_vars

\* Three pages of ten for 25 rows were paged through from the first to the
\* last, where the next page is the last again.
C22_Witness ==
    /\ pagination.op = "GetNextPage"
    /\ pagination.steps = 3
    /\ pagination.page = Int64(1)
    /\ pagination.total = Int64(25)
    /\ pagination.p.PageSize = Int64(10)
    /\ pagination.p.Page = Int64(3)
    /\ pagination.p.TotalPage = Int64(3)

\* ------------------------------------------------------------------- C30
\* C30: whatever page, pageSize and total are, the Pagination NewPagination
\* returns is valid (Page at least 1, PageSize within 1..100), and its
\* GetOffset() is the product (Page - 1) * PageSize, which is not negative:
\* the offset divided by PageSize gives Page - 1 back.
C30_BuiltIsValidWithOffset ==
    Built =>
        LET p == pagination.p
            offset == GetOffset(p)
        IN  /\ IsValid(p)
            /\ ~Less(p.Page, Int64(1))
            /\ ~Less(p.PageSize, Int64(1)) /\ ~Less(Int64(100), p.PageSize)
            /\ ~IsNegative(offset)
            /\ DivSmall(offset, p.PageSize[1]) =
                    [q |-> Sub(p.Page, Int64(1)), r |-> 0]

\* ------------------------------------------------------------------- C23
\* The other requests of r's client that acquired the mutex before r did:
\* while r holds it, those that have gone through the middleware.
AcquiredBefore(r) == {q \in Requests \ {r} : ip[q] = ip[r] /\ pc[q] = "done"}

\* The slots of r's client that are free when r is decided.
FreeSlots(r) ==
    Quota.maxRequests
        - Cardinality({q \in AcquiredBefore(r) :
                            Admitted(q) /\ now[r] - At(q) < Quota.duration})

\* C23: the requests of a client go through the middleware one at a time,
\* and are admitted in the order they acquire the mutex: a request acquires
\* it only when no other request is between Lock and Unlock, every other
\* request of its client has then either been decided before it or has yet
\* to acquire the mutex, and the request is admitted exactly when those
\* decided before it left a slot free in the window.
C23_AdmittedInLockOrder ==
    [][\A r \in Requests :
        /\ (pc[r] = "lock" /\ pc'[r] = "now") =>
                /\ mu = 0 /\ mu' = r
                /\ \A q \in Requests \ {r} : pc[q] \in {"idle", "lock", "done"}
        /\ DecidedNow(r) =>
                /\ mu = r
                /\ \A q \in Requests \ {r} :
                        \/ q \in AcquiredBefore(r) /\ Decided(q)
                        \/ pc[q] \in {"idle", "lock"}
                        \/ pc[q] = "done" /\ ip[q] # ip[r]
                /\ Admitted(r)' <=> FreeSlots(r) > 0]_vars

\* Two requests of one client contended for the last free slot at one
\* instant: the one that arrived later acquired the mutex first and was
\* admitted, the other holds the mutex now and has just been rejected.
C23_Witness ==
    \E p, q \in Requests :
        /\ p < q /\ ip[p] = ip[q]
        /\ pc[q] = "done" /\ Admitted(q)
        /\ pc[p] = "unlock" /\ mu = p /\ Rejected(p)
        /\ At(p) = At(q)
        /\ Cardinality(AdmittedWithin(ip[p], At(p))) = Quota.maxRequests

\* ------------------------------------------------------------------- C24
\* C24: the stored timestamps of every client are in non-decreasing order,
\* in every reachable state: the clock does not go back, and a timestamp is
\* read and appended under the mutex.
C24_StoredTimestampsOrdered ==
    \A c \in DOMAIN requests :
        \A i, j \in DOMAIN requests[c] :
            i < j => requests[c][i] <= requests[c][j]

\* Two timestamps of one client stored at different times, the earlier one
\* by the request that arrived later.
C24_Witness ==
    \E c \in DOMAIN requests :
        /\ Len(requests[c]) >= 2
        /\ requests[c][1] < requests[c][2]
        /\ \E p, q \in DecidedOf(c) :
            /\ p < q /\ Admitted(p) /\ Admitted(q)
            /\ At(q) = requests[c][1] /\ At(p) = requests[c][2]

\* ------------------------------------------------------------------- C25
\* C25: under one quota N > 0, the stored window of every client holds at
\* most N timestamps in every reachable state, expired ones included.
C25_AtMostQuotaStored ==
    \A c \in Clients : Len(Lookup(requests, c)) <= Quota.maxRequests

\* A client holds N >= 2 stored timestamps of which the first has expired
\* and is still stored.
C25_Witness ==
    \E c \in DOMAIN requests :
        /\ Quota.maxRequests >= 2
        /\ Len(requests[c]) = Quota.maxRequests
        /\ clock - requests[c][1] >= Quota.duration

\* ------------------------------------------------------------------- C26
\* Request r is rejected, or has counted its window and will be.
BoundToReject(r) ==
    \/ Rejected(r)
    \/ pc[r] = "check" /\ LimitExceeded(recentRequests[r], Quota.maxRequests)

\* C26: a step of a request that is rejected leaves the stored timestamps of
\* every client, its own included, as they were; all it can change in the
\* map is to enter its own client, when missing, with an empty window.
C26_RejectionStoresNothing ==
    [][\A r \in Requests :
        (pc'[r] # pc[r] /\ BoundToReject(r)') =>
            /\ \A c \in Clients : Lookup(requests', c) = Lookup(requests, c)
            /\ \/ requests' = requests
               \/ /\ ip[r] \notin DOMAIN requests
                  /\ DOMAIN requests' = DOMAIN requests \cup {ip[r]}
                  /\ requests'[ip[r]] = <<>>]_vars

\* Under a quota of 1 both clients hold a stored timestamp, and a request of
\* one of them has just been rejected.
C26_Witness ==
    \E r \in Requests :
        /\ pc[r] = "unlock" /\ Rejected(r)
        /\ Quota.maxRequests = 1
        /\ \A c \in Clients : Len(Lookup(requests, c)) = 1

\* ------------------------------------------------------------------- C27
\* C27: the set of tracked clients only grows: no step removes a key of the
\* map, whether or not the timestamps under it have expired.
C27_TrackedClientsOnlyGrow ==
    [][DOMAIN requests \subseteq DOMAIN requests']_vars

\* Both clients are tracked; every timestamp of one of them has expired, and
\* a request of the other was admitted after that.
C27_Witness ==
    \E c, d \in DOMAIN requests :
        /\ c # d
        /\ requests[c] # <<>>
        /\ \A i \in DOMAIN requests[c] :
                clock - requests[c][i] >= Quota.duration
        /\ \E q \in DecidedOf(d) :
                /\ Admitted(q) /\ pc[q] = "done"
                /\ \A i \in DOMAIN requests[c] :
                        At(q) - requests[c][i] >= Quota.duration

\* ------------------------------------------------------------------- C28
\* C28: behind a middleware built with maxRequests <= 0 every request of
\* every client is rejected with 429 and the chain aborted, the downstream
\* handler is never invoked, and no timestamp is ever stored.
C28_NonPositiveQuotaRejectsAll ==
    [][Quota.maxRequests <= 0 =>
        /\ \A r \in Requests :
            /\ DecidedNow(r) =>
                    /\ Rejected(r)'
                    /\ written'[r] = <<StatusOf.ErrorTooManyRequests>>
                    /\ aborted'[r]
            /\ pc'[r] # "handler" /\ handlerRuns'[r] = 0
        /\ \A c \in Clients : Lookup(requests', c) = <<>>]_vars

\* Under a quota that is not positive, requests of both clients have been
\* rejected at different times, and both clients are tracked with nothing
\* stored.
C28_Witness ==
    /\ Quota.maxRequests <= 0
    /\ DOMAIN requests = Clients
    /\ \E p, q \in Requests :
        /\ Rejected(p) /\ pc[p] = "done"
        /\ Rejected(q) /\ pc[q] = "done"
        /\ ip[p] # ip[q] /\ At(p) < At(q)

\* ------------------------------------------------------------------- C29
\* C29: behind a middleware built with maxRequests > 0 and a window <= 0,
\* every request is admitted: each call prunes every stored timestamp, so
\* the count is 0 and no request is rejected.
C29_NonPositiveWindowAdmitsAll ==
    (Quota.maxRequests > 0 /\ Quota.duration <= 0) =>
        \A r \in Requests :
            /\ pc[r] = "check" => recentRequests[r] = <<>>
            /\ Decided(r) => Admitted(r)

\* Under a quota of 1 with a window that is not positive, three requests of
\* one client were admitted at one instant although an earlier timestamp of
\* that instant was stored each time.
C29_Witness ==
    /\ Quota.maxRequests = 1 /\ Quota.duration <= 0
    /\ \E c \in DOMAIN requests :
        /\ requests[c] = <<clock>>
        /\ Cardinality({r \in DecidedOf(c) : Admitted(r) /\ At(r) = clock}) >= 3

====
